---------------------------- MODULE Spec2Model ----------------------------
(***************************************************************************)
(* Model of the Analects tracing-note generator:                           *)
(*   - src/analects_tracing.py : Config, AnalectsTracingPDF                *)
(*     (calculate_layout, the four row renderers, render_passage,          *)
(*     generate);                                                          *)
(*   - src/hanja_dictionary.py : the override table and get_hanja_meaning. *)
(*                                                                         *)
(* Lengths are millimetres.  Config fields are whole numbers of            *)
(* millimetres (as in the defaults of Config); derived lengths (a cell     *)
(* size w / n, a vertical offset) are exact rationals <<num, den>> with    *)
(* den > 0, kept in lowest terms.                                          *)
(*                                                                         *)
(* Python strings are sequences of code points.  A code point is written   *)
(* as an ASCII name: a Hangul syllable by its romanisation ("rak" for the  *)
(* syllable of U+B77D), an ideograph by its code ("U6A02"), and " ", ","   *)
(* for themselves.                                                         *)
(***************************************************************************)
EXTENDS Integers, Sequences, FiniteSets, TLC

VARIABLES
    cfg,          \* self.cfg : the Config of the generator
    pc,           \* position of the running call
    iterated,     \* passages of the input list generate has taken so far
    passage,      \* the passage render_passage is working on
    layout,       \* (cell_size, chars_per_line) of that passage
    page,         \* self.pdf.page : number of the current page, 0 = none yet
    y,            \* the local y of render_passage
    draws,        \* calls and drawing primitives issued for the current passage
    startPages,   \* page on which each rendered passage drew its label
    written,      \* number of times pdf.output has been called
    n_chars,      \* argument of calculate_layout (layout specification)
    custom_file,  \* custom_meanings.json : absent, unreadable, or a table
    custom_dict,  \* _CUSTOM_DICT : not loaded (None), or the override table
    base,         \* the contents of the hanjadict base dictionary
    query,        \* the last dictionary call: its arguments
    answer        \* the last dictionary call: what it returned

vars == <<cfg, pc, iterated, passage, layout, page, y, draws, startPages, written,
          n_chars, custom_file, custom_dict, base, query, answer>>

docVars == <<iterated, passage, page, y, draws, startPages, written>>
dictVars == <<custom_file, custom_dict, base, query, answer>>

-----------------------------------------------------------------------------
(* Bounds of the model *)

\* longest passage, in characters, among the passages enumerated one by one
MaxChars == 12
\* long passages fill 2 + 3 * j wrapped lines of cells, for j up to MaxRowSteps
MaxRowSteps == 4
\* most lines the interpretation paragraph wraps to in multi_cell
MaxInterpLines == 56
\* most passages in the list handed to generate
MaxPassages == 2
\* most candidates in a generated entry of the base dictionary
MaxCands == 2

-----------------------------------------------------------------------------
(* Exact rational arithmetic *)

RECURSIVE GCD(_, _)
GCD(a, b) == IF b = 0 THEN a ELSE GCD(b, a % b)

Abs(a) == IF a < 0 THEN -a ELSE a

\* the rational num / den (den # 0) in lowest terms with a positive denominator
Rat(num, den) ==
    LET g == GCD(Abs(num), Abs(den))
        s == IF den < 0 THEN -1 ELSE 1
    IN  <<(s * num) \div g, (s * den) \div g>>

RInt(a) == <<a, 1>>
RAdd(p, q) == Rat(p[1] * q[2] + q[1] * p[2], p[2] * q[2])
RMulInt(p, k) == Rat(p[1] * k, p[2])
RLe(p, q) == p[1] * q[2] <= q[1] * p[2]
RLt(p, q) == p[1] * q[2] < q[1] * p[2]
RMin(p, q) == IF RLe(p, q) THEN p ELSE q
RMax(p, q) == IF RLe(q, p) THEN p ELSE q

\* math.ceil(a / b) for integers a >= 0, b # 0
CeilDiv(a, b) == IF b > 0 THEN (a + b - 1) \div b ELSE -(a \div (-b))

-----------------------------------------------------------------------------
(* Config *)

\* Config() : the defaults of the dataclass.  Colours, stroke widths and the
\* font ratio do not enter any length computed below and are left out.
DefaultConfig ==
    [ page_width            |-> 210,
      page_height           |-> 297,
      margin_left           |-> 15,
      margin_right          |-> 15,
      margin_top            |-> 20,
      margin_bottom         |-> 15,
      min_cell_size         |-> 20,
      max_cell_size         |-> 30,
      chars_per_line        |-> 6,
      label_height          |-> 7,
      reading_height        |-> 6,
      meaning_height        |-> 5,
      row_gap               |-> 4,
      passage_gap           |-> 12,
      interp_practice_lines |-> 3,
      interp_practice_height |-> 12 ]

\* Config.usable_width
usable_width(c) == c.page_width - c.margin_left - c.margin_right

\* Config.usable_height
usable_height(c) == c.page_height - c.margin_top - c.margin_bottom

\* the offset the row renderers compare against: page_height - margin_bottom
page_bottom(c) == c.page_height - c.margin_bottom

\* Configurations the layout specification draws from: Config is a plain
\* dataclass, nothing validates its fields, so any page width and any pair
\* of cell bounds can reach calculate_layout.
LayoutConfigs ==
    { [DefaultConfig EXCEPT !.page_width = pw,
                            !.min_cell_size = mn,
                            !.max_cell_size = mx] :
        pw \in {20, 45, 50, 90, 120, 210, 330},
        mn \in {10, 20, 25},
        mx \in {15, 30} }

-----------------------------------------------------------------------------
(* AnalectsTracingPDF.calculate_layout *)

\* an uncaught Python exception
Raised(e) == [ok |-> FALSE, exc |-> e]

LayoutOf(cell, cpl) == [ok |-> TRUE, cell |-> cell, cpl |-> cpl]

\* mutant: the short-passage branch returns the cell without clamping it up
\* to min_cell_size
calculate_layout_noclamp(c, n) ==
    LET w == usable_width(c)
    IN  IF n <= 6
        THEN IF n = 0
             THEN Raised("ZeroDivisionError")
             ELSE LayoutOf(RMin(Rat(w, n), RInt(c.max_cell_size)), n)
        ELSE IF RLe(RInt(c.min_cell_size), Rat(w, n))
        THEN LayoutOf(Rat(w, n), n)
        ELSE IF c.min_cell_size = 0
        THEN Raised("ZeroDivisionError")
        ELSE LayoutOf(RInt(c.min_cell_size), w \div c.min_cell_size)

\* mutant: the wrapping branch takes Config.chars_per_line ("fallback when
\* wrapping") instead of computing how many minimum cells fit
calculate_layout_fallback(c, n) ==
    LET w == usable_width(c)
    IN  IF n <= 6
        THEN IF n = 0
             THEN Raised("ZeroDivisionError")
             ELSE LET cell == RMin(Rat(w, n), RInt(c.max_cell_size))
                  IN  LayoutOf(RMax(cell, RInt(c.min_cell_size)), n)
        ELSE IF RLe(RInt(c.min_cell_size), Rat(w, n))
        THEN LayoutOf(Rat(w, n), n)
        ELSE LayoutOf(RInt(c.min_cell_size), c.chars_per_line)

\* mutant: an empty passage gets the largest cell and no character per
\* line, where the division by n_chars fails
calculate_layout_empty(c, n) ==
    LET w == usable_width(c)
    IN  IF n <= 6
        THEN IF n = 0
             THEN LayoutOf(RInt(c.max_cell_size), n)
             ELSE LET cell == RMin(Rat(w, n), RInt(c.max_cell_size))
                  IN  LayoutOf(RMax(cell, RInt(c.min_cell_size)), n)
        ELSE IF RLe(RInt(c.min_cell_size), Rat(w, n))
        THEN LayoutOf(Rat(w, n), n)
        ELSE IF c.min_cell_size = 0
        THEN Raised("ZeroDivisionError")
        ELSE LayoutOf(RInt(c.min_cell_size), w \div c.min_cell_size)

\* mutant: the wrapping branch rounds the characters per line up
calculate_layout_ceil(c, n) ==
    LET w == usable_width(c)
    IN  IF n <= 6
        THEN IF n = 0
             THEN Raised("ZeroDivisionError")
             ELSE LET cell == RMin(Rat(w, n), RInt(c.max_cell_size))
                  IN  LayoutOf(RMax(cell, RInt(c.min_cell_size)), n)
        ELSE IF RLe(RInt(c.min_cell_size), Rat(w, n))
        THEN LayoutOf(Rat(w, n), n)
        ELSE IF c.min_cell_size = 0
        THEN Raised("ZeroDivisionError")
        ELSE LayoutOf(RInt(c.min_cell_size), CeilDiv(w, c.min_cell_size))

calculate_layout(c, n) ==
    LET w == usable_width(c)
    IN  IF n <= 6
        THEN IF n = 0
             THEN Raised("ZeroDivisionError")              \* w / n_chars
             ELSE LET cell == RMin(Rat(w, n), RInt(c.max_cell_size))
                  IN  LayoutOf(RMax(cell, RInt(c.min_cell_size)), n)
        ELSE IF n <= 9 /\ RLe(RInt(c.min_cell_size), Rat(w, n))
        THEN LayoutOf(Rat(w, n), n)
        ELSE IF RLe(RInt(c.min_cell_size), Rat(w, n))
        THEN LayoutOf(Rat(w, n), n)
        ELSE IF c.min_cell_size = 0
        THEN Raised("ZeroDivisionError")                   \* w // cell
        ELSE LayoutOf(RInt(c.min_cell_size), w \div c.min_cell_size)

-----------------------------------------------------------------------------
(* Values of the variables a specification does not use *)

NoPassage == [label |-> <<>>, original |-> <<>>, interpretation |-> <<>>,
              reading |-> <<>>]
NoLayout == [ok |-> FALSE, exc |-> "none"]
NoQuery == [fn |-> "none"]

DocIdle ==
    /\ iterated = 0
    /\ passage = NoPassage
    /\ page = 0
    /\ y = RInt(0)
    /\ draws = <<>>
    /\ startPages = <<>>
    /\ written = 0

DictIdle ==
    /\ custom_file = [state |-> "absent", table |-> {}]
    /\ custom_dict = [loaded |-> FALSE, table |-> {}]
    /\ base = {}
    /\ query = NoQuery
    /\ answer = <<>>

-----------------------------------------------------------------------------
(* Layout specification: calculate_layout applied to one character count    *)
(* under one configuration.                                                *)

InitLayout ==
    /\ cfg \in LayoutConfigs
    /\ n_chars \in 0..MaxChars
    /\ pc = "call_layout"
    /\ layout = NoLayout
    /\ DocIdle
    /\ DictIdle

CalculateLayout ==
    /\ pc = "call_layout"
    /\ layout' = calculate_layout(cfg, n_chars)
    /\ pc' = IF layout'.ok THEN "layout_returned" ELSE "layout_raised"
    /\ UNCHANGED <<cfg, n_chars>>
    /\ UNCHANGED docVars
    /\ UNCHANGED dictVars

NextLayout == CalculateLayout

SpecLayout == InitLayout /\ [][NextLayout]_vars

-----------------------------------------------------------------------------
(* Python strings *)

\* s.split(sep) for a one-character separator
RECURSIVE split_on(_, _)
split_on(s, sep) ==
    IF \A i \in 1..Len(s) : s[i] # sep
    THEN <<s>>
    ELSE LET i == CHOOSE k \in 1..Len(s) :
                      s[k] = sep /\ \A j \in 1..(k - 1) : s[j] # sep
         IN  <<SubSeq(s, 1, i - 1)>> \o split_on(SubSeq(s, i + 1, Len(s)), sep)

\* s.strip() : the blank is the only whitespace of the strings modelled
RECURSIVE strip(_)
strip(s) ==
    IF s = <<>> THEN s
    ELSE IF Head(s) = " " THEN strip(Tail(s))
    ELSE IF s[Len(s)] = " " THEN strip(SubSeq(s, 1, Len(s) - 1))
    ELSE s

\* s.split() : the maximal runs of non-blank characters
RECURSIVE split_ws(_)
split_ws(s) ==
    LET t == strip(s)
    IN  IF t = <<>> THEN <<>>
        ELSE IF \A i \in 1..Len(t) : t[i] # " "
        THEN <<t>>
        ELSE LET i == CHOOSE k \in 1..Len(t) :
                          t[k] = " " /\ \A j \in 1..(k - 1) : t[j] # " "
             IN  <<SubSeq(t, 1, i - 1)>> \o split_ws(SubSeq(t, i + 1, Len(t)))

\* an Optional[str] argument
None == [some |-> FALSE, val |-> <<>>]
Some(s) == [some |-> TRUE, val |-> s]
\* its truth value: None and "" are false
Truthy(p) == p.some /\ p.val # <<>>

\* unicodedata.normalize('NFKC', s) on the code points modelled: the
\* compatibility ideographs U+F914 and U+F967 fold to U+6A02 and U+4E0D
nfkc_char(cp) ==
    CASE cp = "UF914" -> "U6A02"
      [] cp = "UF967" -> "U4E0D"
      [] OTHER -> cp

normalize_NFKC(s) == [i \in 1..Len(s) |-> nfkc_char(s[i])]

-----------------------------------------------------------------------------
(* Tables of key -> string pairs: sets of <<key, value>>, one pair per key  *)

Keys(t) == {kv[1] : kv \in t}
Has(t, k) == k \in Keys(t)
Get(t, k) == (CHOOSE kv \in t : kv[1] = k)[2]
\* mutant: the assignment replaces the table by the one pair
PutAlone(t, k, v) == {<<k, v>>}
Put(t, k, v) == {kv \in t : kv[1] # k} \cup {<<k, v>>}

-----------------------------------------------------------------------------
(* hanja_dictionary *)

NotLoadedDict == [loaded |-> FALSE, table |-> {}]
LoadedDict(t) == [loaded |-> TRUE, table |-> t]

\* _load_custom_dict : the cached table, or what the file holds; a missing
\* or unreadable file gives the empty table
load_custom_dict(cd, file) ==
    IF cd.loaded THEN cd
    ELSE IF file.state = "ok" THEN LoadedDict(file.table)
    ELSE LoadedDict({})

\* hanjadict.lookup : the entry of the base dictionary, "" on a miss
lookup(b, s) == IF Has(b, s) THEN Get(b, s) ELSE <<>>

\* the four "sound change" tests of the candidate loop
SoundFamilies ==
    { {<<"bul">>, <<"bu">>},
      {<<"rak">>, <<"nak">>, <<"ak">>, <<"yo">>},
      {<<"ryuk">>, <<"yuk">>},
      {<<"rye">>, <<"ye">>} }

\* the body of the loop "for cand in candidates" from candidate i on; the
\* result is the candidate returned, or NoMatch when the loop runs out
NoMatch == [found |-> FALSE, cand |-> <<>>]
Match(c) == [found |-> TRUE, cand |-> c]

RECURSIVE scan_candidates(_, _, _)
scan_candidates(candidates, i, preferred_sound) ==
    IF i > Len(candidates) THEN NoMatch
    ELSE LET cand  == candidates[i]
             parts == split_ws(cand)
         IN  IF parts = <<>>
             THEN scan_candidates(candidates, i + 1, preferred_sound)
             ELSE LET actual_sound == parts[Len(parts)]
                  IN  IF actual_sound = preferred_sound
                      THEN Match(cand)
                      ELSE IF \E f \in SoundFamilies :
                                  {actual_sound, preferred_sound} \subseteq f
                      THEN Match(cand)
                      ELSE scan_candidates(candidates, i + 1, preferred_sound)

\* mutant: the second family lacks "rak"
RECURSIVE scan_candidates_norak(_, _, _)
scan_candidates_norak(candidates, i, preferred_sound) ==
    IF i > Len(candidates) THEN NoMatch
    ELSE LET cand  == candidates[i]
             parts == split_ws(cand)
         IN  IF parts = <<>>
             THEN scan_candidates_norak(candidates, i + 1, preferred_sound)
             ELSE LET actual_sound == parts[Len(parts)]
                  IN  IF actual_sound = preferred_sound
                      THEN Match(cand)
                      ELSE IF \E f \in (SoundFamilies
                                          \ {{<<"rak">>, <<"nak">>, <<"ak">>, <<"yo">>}})
                                          \cup {{<<"nak">>, <<"ak">>, <<"yo">>}} :
                                  {actual_sound, preferred_sound} \subseteq f
                      THEN Match(cand)
                      ELSE scan_candidates_norak(candidates, i + 1, preferred_sound)

\* mutant: only a literal match selects a candidate
RECURSIVE scan_candidates_literal(_, _, _)
scan_candidates_literal(candidates, i, preferred_sound) ==
    IF i > Len(candidates) THEN NoMatch
    ELSE LET cand  == candidates[i]
             parts == split_ws(cand)
         IN  IF parts = <<>>
             THEN scan_candidates_literal(candidates, i + 1, preferred_sound)
             ELSE IF parts[Len(parts)] = preferred_sound
             THEN Match(cand)
             ELSE scan_candidates_literal(candidates, i + 1, preferred_sound)

select_candidate_norak(result, preferred_sound) ==
    LET parted     == split_on(result, ",")
        candidates == [i \in 1..Len(parted) |-> strip(parted[i])]
        m == IF Truthy(preferred_sound)
             THEN scan_candidates_norak(candidates, 1, preferred_sound.val)
             ELSE NoMatch
    IN  IF m.found THEN m.cand ELSE candidates[1]

select_candidate_literal(result, preferred_sound) ==
    LET parted     == split_on(result, ",")
        candidates == [i \in 1..Len(parted) |-> strip(parted[i])]
        m == IF Truthy(preferred_sound)
             THEN scan_candidates_literal(candidates, 1, preferred_sound.val)
             ELSE NoMatch
    IN  IF m.found THEN m.cand ELSE candidates[1]

\* the part of get_hanja_meaning after the base dictionary has answered
select_candidate(result, preferred_sound) ==
    LET parted     == split_on(result, ",")
        candidates == [i \in 1..Len(parted) |-> strip(parted[i])]
        m == IF Truthy(preferred_sound)
             THEN scan_candidates(candidates, 1, preferred_sound.val)
             ELSE NoMatch
    IN  IF m.found THEN m.cand ELSE candidates[1]

\* mutant: the base dictionary is asked before the override table
get_hanja_meaning_basefirst(t, b, char, preferred_sound) ==
    IF char = <<>> \/ Len(char) # 1 THEN <<>>
    ELSE LET normalized_char == normalize_NFKC(char)
             first  == lookup(b, normalized_char)
             result == IF first = <<>> THEN lookup(b, char) ELSE first
         IN  IF result # <<>> THEN select_candidate(result, preferred_sound)
             ELSE IF Has(t, char) THEN Get(t, char)
             ELSE IF Has(t, normalized_char) THEN Get(t, normalized_char)
             ELSE <<>>

\* mutant: a character the base dictionary misses is given back as its own
\* gloss
get_hanja_meaning_echo(t, b, char, preferred_sound) ==
    IF char = <<>> \/ Len(char) # 1 THEN <<>>
    ELSE IF Has(t, char) THEN Get(t, char)
    ELSE LET normalized_char == normalize_NFKC(char)
         IN  IF Has(t, normalized_char) THEN Get(t, normalized_char)
             ELSE LET first  == lookup(b, normalized_char)
                      result == IF first = <<>> THEN lookup(b, char) ELSE first
                  IN  IF result = <<>> THEN char
                      ELSE select_candidate(result, preferred_sound)

\* get_hanja_meaning(char, preferred_sound), with custom_dict = t the loaded
\* override table and b the base dictionary
get_hanja_meaning(t, b, char, preferred_sound) ==
    IF char = <<>> \/ Len(char) # 1 THEN <<>>
    ELSE IF Has(t, char) THEN Get(t, char)
    ELSE LET normalized_char == normalize_NFKC(char)
         IN  IF Has(t, normalized_char) THEN Get(t, normalized_char)
             ELSE LET first  == lookup(b, normalized_char)
                      result == IF first = <<>> THEN lookup(b, char) ELSE first
                  IN  IF result = <<>> THEN <<>>
                      ELSE select_candidate(result, preferred_sound)

-----------------------------------------------------------------------------
(* Inputs of the dictionary specifications *)

\* "jeulgeoul rak, norae ak, johahal yo" : the entry of U+6A02
RakEntry ==
    <<"jeul", "geo", "ul", " ", "rak", ",", " ",
      "no", "rae", " ", "ak", ",", " ",
      "jo", "ha", "hal", " ", "yo">>

\* "anil bul, anil bu" : the entry of U+4E0D
BulEntry == <<"a", "nil", " ", "bul", ",", " ", "a", "nil", " ", "bu">>

\* generated entries of U+5B78: up to MaxCands candidates "tteut <sound>",
\* or empty candidates, joined by ", "
GenCands == {<<"tteut", " ", snd>> : snd \in {"rak", "ak", "hak"}} \cup {<<>>}

RECURSIVE join_cands(_)
join_cands(cs) ==
    IF Len(cs) = 1 THEN cs[1]
    ELSE cs[1] \o <<",", " ">> \o join_cands(Tail(cs))

GenEntries ==
    {join_cands(cs) : cs \in UNION {[1..k -> GenCands] : k \in 1..MaxCands}}

\* the base dictionary of the call sequences
FixedBase == {<<<<"U6A02">>, RakEntry>>, <<<<"U4E0D">>, BulEntry>>}

\* base dictionaries: U+6A02 and U+4E0D carry their entries, the
\* compatibility forms have none of their own, U+5B78 varies (or misses)
BaseDicts ==
    { FixedBase \cup {<<<<"U5B78">>, e>>} : e \in GenEntries }
    \cup
    \* a dictionary that knows a compatibility form and not its canonical one
    { {<<<<"UF914">>, RakEntry>>, <<<<"U4E0D">>, BulEntry>>} }

Syllables == {"rak", "nak", "ak", "yo", "bul", "bu", "ryuk", "yuk", "rye", "ye", "hak"}

PreferredSounds ==
    {None, Some(<<>>), Some(<<"a", "k">>)} \cup {Some(<<snd>>) : snd \in Syllables}

QueryChars ==
    {<<>>, <<"U6A02">>, <<"UF914">>, <<"U4E0D">>, <<"U5B78">>, <<"U6A02", "U4E0D">>}

SaveChars == {<<>>, <<"U6A02">>, <<"UF914">>}

Meanings == {<<>>, <<"pung", "nyu", " ", "ak">>, <<"jeul", "gil", " ", "rak">>}

\* override tables over the keys and meanings that can be saved
OverrideTables ==
    LET pairs == {<<k, m>> : k \in SaveChars \ {<<>>}, m \in Meanings \ {<<>>}}
    IN  {t \in SUBSET pairs : \A p, q \in t : p[1] = q[1] => p = q}

PersistedFiles ==
    { [state |-> "absent", table |-> {}],
      [state |-> "corrupt", table |-> {}],
      [state |-> "ok", table |-> {}],
      [state |-> "ok", table |-> {<<<<"U6A02">>, <<"pung", "nyu", " ", "ak">>>>}] }

-----------------------------------------------------------------------------
(* Gloss specification: one call of get_hanja_meaning, for every override  *)
(* table, base dictionary, argument and preferred sound of the sets above. *)

InitGloss ==
    /\ cfg = DefaultConfig
    /\ pc = "call_get"
    /\ layout = NoLayout
    /\ n_chars = 0
    /\ DocIdle
    /\ \/ custom_dict = NotLoadedDict /\ custom_file \in PersistedFiles
       \/ /\ custom_dict \in {LoadedDict(t) : t \in OverrideTables}
          /\ custom_file = [state |-> "absent", table |-> {}]
    /\ base \in BaseDicts
    /\ query \in {[fn |-> "get_hanja_meaning", char |-> c, preferred_sound |-> p] :
                    c \in QueryChars, p \in PreferredSounds}
    /\ answer = <<>>

\* get_hanja_meaning(query.char, query.preferred_sound)
CallGetHanjaMeaning ==
    /\ pc = "call_get"
    \* the table is loaded only after the length test has passed
    /\ custom_dict' = IF query.char = <<>> \/ Len(query.char) # 1
                      THEN custom_dict
                      ELSE load_custom_dict(custom_dict, custom_file)
    /\ answer' = get_hanja_meaning(custom_dict'.table, base, query.char,
                                   query.preferred_sound)
    /\ pc' = "get_returned"
    /\ UNCHANGED <<cfg, layout, n_chars, base, custom_file, query>>
    /\ UNCHANGED docVars

NextGloss == CallGetHanjaMeaning

SpecGloss == InitGloss /\ [][NextGloss]_vars

-----------------------------------------------------------------------------
(* Dictionary specification: any sequence of save_custom_meaning and       *)
(* get_hanja_meaning calls over one base dictionary.                       *)

InitDict ==
    /\ cfg = DefaultConfig
    /\ pc = "dictionary"
    /\ layout = NoLayout
    /\ n_chars = 0
    /\ DocIdle
    /\ custom_file \in PersistedFiles
    /\ custom_dict = NotLoadedDict
    /\ base = FixedBase
    /\ query = NoQuery
    /\ answer = <<>>

\* save_custom_meaning(char, meaning); it returns nothing, answer is left ""
SaveCustomMeaning ==
    /\ pc = "dictionary"
    /\ \E char \in SaveChars, meaning \in Meanings, written_ok \in BOOLEAN :
        /\ query' = [fn |-> "save_custom_meaning", char |-> char,
                     meaning |-> meaning]
        /\ IF char = <<>> \/ meaning = <<>>
           THEN UNCHANGED <<custom_dict, custom_file>>
           ELSE LET current_dict == load_custom_dict(custom_dict, custom_file)
                    updated == Put(current_dict.table, char, meaning)
                IN  /\ custom_dict' = LoadedDict(updated)
                    \* open(path, 'w') or json.dump may fail: caught, printed
                    /\ custom_file' = IF written_ok
                                      THEN [state |-> "ok", table |-> updated]
                                      ELSE custom_file
    /\ answer' = <<>>
    /\ UNCHANGED <<cfg, pc, layout, n_chars, base>>
    /\ UNCHANGED docVars

\* get_hanja_meaning(char, preferred_sound)
GetHanjaMeaning ==
    /\ pc = "dictionary"
    /\ \E char \in {<<>>, <<"U6A02">>, <<"UF914">>, <<"U4E0D">>},
          preferred_sound \in {None, Some(<<"ak">>), Some(<<"bu">>)} :
        /\ query' = [fn |-> "get_hanja_meaning", char |-> char,
                     preferred_sound |-> preferred_sound]
        /\ custom_dict' = IF char = <<>> \/ Len(char) # 1
                          THEN custom_dict
                          ELSE load_custom_dict(custom_dict, custom_file)
        /\ answer' = get_hanja_meaning(custom_dict'.table, base, char,
                                       preferred_sound)
    /\ UNCHANGED <<cfg, pc, layout, n_chars, base, custom_file>>
    /\ UNCHANGED docVars

NextDict == SaveCustomMeaning \/ GetHanjaMeaning

SpecDict == InitDict /\ [][NextDict]_vars

-----------------------------------------------------------------------------
(* Drawing surface: what the generator asks of the FPDF object.  An event   *)
(* is a call of a row renderer ("call"), pdf.add_page, or one drawing step *)
(* with the page it lands on, its top offset y and its height h.           *)

Call(name, pg, at) == [op |-> "call", what |-> name, page |-> pg, y |-> at]
AddPage(pg) == [op |-> "add_page", page |-> pg]
Draw(kind, pg, at, height, count) ==
    [op |-> kind, page |-> pg, y |-> at, h |-> height, n |-> count]

\* the outcome of a renderer: the offset it returns, the current page and
\* the events it issued
Rendered(at, pg, evs) == [ok |-> TRUE, y |-> at, page |-> pg, draws |-> evs]

\* number of characters in line k (from 1) of n characters, cpl per line:
\* len(chars[i:i + cpl]) for i = (k - 1) * cpl
chars_in_line(n, cpl, k) ==
    IF n - (k - 1) * cpl < cpl THEN n - (k - 1) * cpl ELSE cpl

\* len(range(0, n, cpl)) for cpl # 0 : the lines a text of n characters is
\* cut into (none for a negative step)
line_count(n, cpl) == IF cpl > 0 THEN CeilDiv(n, cpl) ELSE 0

\* height of one wrapped line of the interpretation paragraph (multi_cell h)
InterpLineHeight == 5

\* AnalectsTracingPDF.render_original_row; interp_lines is the number of
\* lines multi_cell wraps the interpretation to
render_original_row(c, chars, cell_size, cpl, y_start, has_reading, interp_lines, pg) ==
    IF cpl = 0
    THEN Raised("ValueError")                      \* range() arg 3 is zero
    ELSE
    LET n_lines == line_count(Len(chars), cpl)
        line_evs == [k \in 1..n_lines |->
                       Draw("original_line", pg,
                            RAdd(y_start, RMulInt(cell_size, k - 1)),
                            cell_size, chars_in_line(Len(chars), cpl, k))]
        y1 == RAdd(y_start, RMulInt(cell_size, n_lines))
        reading_evs == IF has_reading
                       THEN <<Draw("reading", pg, y1, RInt(c.reading_height), 1)>>
                       ELSE <<>>
        y2 == IF has_reading THEN RAdd(y1, RInt(c.reading_height)) ELSE y1
        para_h == RInt(InterpLineHeight * interp_lines)
        y3 == RAdd(RAdd(y2, para_h), RInt(2))
    IN  Rendered(y3, pg,
                 <<Call("render_original_row", pg, y_start)>>
                   \o line_evs \o reading_evs
                   \o <<Draw("interpretation", pg, y2, para_h, interp_lines)>>)

\* the calls get_hanja_meaning(ch) of one line of the ghost row: each with
\* its argument, the preferred sound passed, and the gloss returned;
\* meanings[ch] is get_hanja_meaning(ch) for the characters of the passage
gloss_calls(meanings, line_chars) ==
    [i \in 1..Len(line_chars) |->
        [char |-> <<line_chars[i]>>,
         preferred_sound |-> None,
         meaning |-> meanings[line_chars[i]]]]

\* mutant: the page check of the ghost row counts the cells only
render_ghost_row_cells_only(c, chars, cell_size, cpl, y_start, pg, t, b) ==
    LET row_height == RAdd(cell_size, RInt(c.meaning_height))
        n_rows == CeilDiv(Len(chars), cpl)
        brk == RLt(RInt(page_bottom(c)), RAdd(y_start, RMulInt(cell_size, n_rows)))
        y0 == IF brk THEN RInt(c.margin_top) ELSE y_start
        pg0 == IF brk THEN pg + 1 ELSE pg
        n_lines == line_count(Len(chars), cpl)
        meanings == [ch \in {chars[i] : i \in 1..Len(chars)} |->
                       get_hanja_meaning(t, b, <<ch>>, None)]
        line_evs == [k \in 1..n_lines |->
                       [op |-> "ghost_line", page |-> pg0,
                        y |-> RAdd(y0, RMulInt(row_height, k - 1)),
                        h |-> row_height,
                        n |-> chars_in_line(Len(chars), cpl, k),
                        calls |-> gloss_calls(meanings,
                                     SubSeq(chars, (k - 1) * cpl + 1,
                                            (k - 1) * cpl
                                              + chars_in_line(Len(chars), cpl, k)))]]
    IN  Rendered(RAdd(y0, RMulInt(row_height, n_lines)), pg0,
                 <<Call("render_ghost_row", pg, y_start)>>
                   \o (IF brk THEN <<AddPage(pg0)>> ELSE <<>>)
                   \o line_evs)

\* AnalectsTracingPDF.render_ghost_row; t is the loaded override table and b
\* the base dictionary its get_hanja_meaning calls see
render_ghost_row(c, chars, cell_size, cpl, y_start, pg, t, b) ==
    IF cpl = 0
    THEN Raised("ZeroDivisionError")               \* len(chars) / chars_per_line
    ELSE
    LET row_height == RAdd(cell_size, RInt(c.meaning_height))
        n_rows == CeilDiv(Len(chars), cpl)
        brk == RLt(RInt(page_bottom(c)), RAdd(y_start, RMulInt(row_height, n_rows)))
        y0 == IF brk THEN RInt(c.margin_top) ELSE y_start
        pg0 == IF brk THEN pg + 1 ELSE pg
        n_lines == line_count(Len(chars), cpl)
        meanings == [ch \in {chars[i] : i \in 1..Len(chars)} |->
                       get_hanja_meaning(t, b, <<ch>>, None)]
        line_evs == [k \in 1..n_lines |->
                       [op |-> "ghost_line", page |-> pg0,
                        y |-> RAdd(y0, RMulInt(row_height, k - 1)),
                        h |-> row_height,
                        n |-> chars_in_line(Len(chars), cpl, k),
                        calls |-> gloss_calls(meanings,
                                     SubSeq(chars, (k - 1) * cpl + 1,
                                            (k - 1) * cpl
                                              + chars_in_line(Len(chars), cpl, k)))]]
    IN  Rendered(RAdd(y0, RMulInt(row_height, n_lines)), pg0,
                 <<Call("render_ghost_row", pg, y_start)>>
                   \o (IF brk THEN <<AddPage(pg0)>> ELSE <<>>)
                   \o line_evs)

\* mutant: the practice row takes over the ghost row's page check, the
\* annotation height included
render_practice_row_as_ghost(c, n, cell_size, cpl, y_start, pg) ==
    LET n_rows == CeilDiv(n, cpl)
        brk == RLt(RInt(page_bottom(c)),
                   RAdd(y_start,
                        RMulInt(RAdd(cell_size, RInt(c.meaning_height)), n_rows)))
        y0 == IF brk THEN RInt(c.margin_top) ELSE y_start
        pg0 == IF brk THEN pg + 1 ELSE pg
        line_evs == [k \in 1..n_rows |->
                       Draw("practice_line", pg0,
                            RAdd(y0, RMulInt(cell_size, k - 1)),
                            cell_size, chars_in_line(n, cpl, k))]
    IN  Rendered(RAdd(y0, RMulInt(cell_size, n_rows)), pg0,
                 <<Call("render_practice_row", pg, y_start)>>
                   \o (IF brk THEN <<AddPage(pg0)>> ELSE <<>>)
                   \o line_evs)

\* AnalectsTracingPDF.render_practice_row
render_practice_row(c, n, cell_size, cpl, y_start, pg) ==
    IF cpl = 0
    THEN Raised("ZeroDivisionError")               \* n_chars / chars_per_line
    ELSE
    LET n_rows == CeilDiv(n, cpl)
        brk == RLt(RInt(page_bottom(c)), RAdd(y_start, RMulInt(cell_size, n_rows)))
        y0 == IF brk THEN RInt(c.margin_top) ELSE y_start
        pg0 == IF brk THEN pg + 1 ELSE pg
        \* range(n_rows) is empty for n_rows <= 0
        drawn == IF n_rows > 0 THEN n_rows ELSE 0
        line_evs == [k \in 1..drawn |->
                       Draw("practice_line", pg0,
                            RAdd(y0, RMulInt(cell_size, k - 1)),
                            cell_size, chars_in_line(n, cpl, k))]
    IN  Rendered(RAdd(y0, RMulInt(cell_size, drawn)), pg0,
                 <<Call("render_practice_row", pg, y_start)>>
                   \o (IF brk THEN <<AddPage(pg0)>> ELSE <<>>)
                   \o line_evs)

\* the label of the ruled-line row sits in the 6 mm above the first line
InterpLabelHeight == 6

\* AnalectsTracingPDF.render_interp_practice
render_interp_practice(c, y_start, pg) ==
    LET needed_h == c.interp_practice_lines * c.interp_practice_height
        brk == RLt(RInt(page_bottom(c)), RAdd(y_start, RInt(needed_h)))
        y0 == IF brk THEN RInt(c.margin_top) ELSE y_start
        pg0 == IF brk THEN pg + 1 ELSE pg
        y1 == RAdd(y0, RInt(InterpLabelHeight))
        rule_evs == [k \in 1..c.interp_practice_lines |->
                       Draw("ruled_line", pg0,
                            RAdd(y1, RInt(k * c.interp_practice_height)),
                            RInt(0), 1)]
        drawn == IF c.interp_practice_lines > 0 THEN c.interp_practice_lines ELSE 0
    IN  Rendered(RAdd(y1, RInt(drawn * c.interp_practice_height)), pg0,
                 <<Call("render_interp_practice", pg, y_start)>>
                   \o (IF brk THEN <<AddPage(pg0)>> ELSE <<>>)
                   \o <<Draw("interp_label", pg0, y0, RInt(InterpLabelHeight), 1)>>
                   \o rule_evs)

-----------------------------------------------------------------------------
(* Passages handed to generate *)

\* the ideographs of the passages, and the syllable each is read with
Alphabet == <<"U5B50", "U66F0", "U6A02", "U4E0D">>
AlphabetSound == <<"ja", "wal", "ak", "bu">>

\* characters per line once a passage wraps under Config() : 180 // 20
WrapWidth == usable_width(DefaultConfig) \div DefaultConfig.min_cell_size

\* lengths of the passages: every length up to MaxChars (0 for a record
\* with an empty "original", which load_passages lets through), and long
\* passages that fill 2, 5, 8, ... wrapped lines
PassageLengths ==
    (0..MaxChars) \cup {WrapWidth * (2 + 3 * j) : j \in 0..MaxRowSteps}

original_of(n) == [i \in 1..n |-> Alphabet[((i - 1) % Len(Alphabet)) + 1]]

\* a reading with one syllable per character, with ": " after the second
\* syllable of a passage of more than two characters
sound_of(i) == AlphabetSound[((i - 1) % Len(Alphabet)) + 1]

reading_of(n) ==
    IF n <= 2
    THEN [i \in 1..n |-> sound_of(i)]
    ELSE [i \in 1..(n + 2) |->
            CASE i <= 2 -> sound_of(i)
              [] i = 3  -> ":"
              [] i = 4  -> " "
              [] OTHER  -> sound_of(i - 2)]

\* each length with a reading of as many syllables; the short passages
\* also without a reading and with a reading one syllable longer
Passages ==
    { [label |-> <<"1", "-", "1">>,
       original |-> original_of(n),
       interpretation |-> <<"hae", "seok">>,
       reading |-> CASE kind = "none" -> <<>>
                     [] kind = "aligned" -> reading_of(n)
                     [] kind = "longer" -> reading_of(n) \o <<" ", "ya">>] :
        n \in 0..MaxChars, kind \in {"none", "aligned", "longer"} }
    \cup
    { [label |-> <<"1", "-", "1">>,
       original |-> original_of(n),
       interpretation |-> <<"hae", "seok">>,
       reading |-> reading_of(n)] : n \in PassageLengths }

-----------------------------------------------------------------------------
(* Document specification: generate(passages, output_path) under Config()  *)

Init ==
    /\ cfg = DefaultConfig
    /\ pc = "constructed"
    /\ iterated = 0
    /\ passage = NoPassage
    /\ layout = NoLayout
    /\ page = 0
    /\ y = RInt(0)
    /\ draws = <<>>
    /\ startPages = <<>>
    /\ written = 0
    /\ n_chars = 0
    /\ custom_file = [state |-> "absent", table |-> {}]
    /\ custom_dict = NotLoadedDict
    /\ base = FixedBase
    /\ query = NoQuery
    /\ answer = <<>>

\* mutant: a page is added for the first passage only
start_page_first_only(pg) == IF pg = 0 THEN pg + 1 ELSE pg

\* render_passage, "if self.pdf.page == 0: add_page() else: add_page()" :
\* the page number after it
start_page(pg) == IF pg = 0 THEN pg + 1 ELSE pg + 1

\* generate : self.cursor_y = margin_top (overwritten by render_passage
\* before it is read), then the loop over the passages
Generate ==
    /\ pc = "constructed"
    /\ y' = y
    /\ pc' = "loop"
    /\ UNCHANGED <<cfg, iterated, passage, layout, page, draws, startPages,
                   written, n_chars>>
    /\ UNCHANGED dictVars

\* the loop takes the next passage of the list (the list, an input, is
\* drawn passage by passage; it holds at most MaxPassages) and calls
\* render_passage, here up to the label: the layout, the new page, the label
RenderPassage ==
    /\ pc = "loop"
    /\ iterated < MaxPassages
    /\ \E p \in Passages :
        LET lay   == calculate_layout(cfg, Len(p.original))
            newpg == start_page(page)
            top   == RInt(cfg.margin_top)
        IN  /\ passage' = p
            /\ layout' = lay
            /\ iterated' = iterated + 1
            /\ IF lay.ok
               THEN /\ page' = newpg
                    /\ y' = RAdd(top, RInt(cfg.label_height))
                    /\ draws' = <<Call("render_passage", page, y)>>
                                  \o (IF newpg # page THEN <<AddPage(newpg)>> ELSE <<>>)
                                  \o <<Draw("label", newpg, top,
                                            RInt(cfg.label_height), 1)>>
                    /\ startPages' = Append(startPages, newpg)
                    /\ pc' = "original"
               ELSE /\ draws' = <<Call("render_passage", page, y)>>
                    /\ pc' = "raised"
                    /\ UNCHANGED <<page, y, startPages>>
    /\ UNCHANGED <<cfg, written, n_chars>>
    /\ UNCHANGED dictVars

\* Row 1
RenderOriginalRow ==
    /\ pc = "original"
    /\ \E interp_lines \in 1..MaxInterpLines :
        LET r == render_original_row(cfg, passage.original, layout.cell,
                                     layout.cpl, y, passage.reading # <<>>,
                                     interp_lines, page)
        IN  IF r.ok
            THEN /\ y' = RAdd(r.y, RInt(cfg.row_gap))
                 /\ draws' = draws \o r.draws
                 /\ pc' = "ghost"
            ELSE /\ pc' = "raised"
                 /\ UNCHANGED <<y, draws>>
    /\ UNCHANGED <<cfg, iterated, passage, layout, page, startPages, written, n_chars>>
    /\ UNCHANGED dictVars

\* Row 2; its get_hanja_meaning calls load the override table
RenderGhostRow ==
    /\ pc = "ghost"
    /\ LET loaded == load_custom_dict(custom_dict, custom_file)
           r == render_ghost_row(cfg, passage.original, layout.cell, layout.cpl,
                                 y, page, loaded.table, base)
       IN  IF r.ok
           THEN /\ y' = RAdd(r.y, RInt(cfg.row_gap))
                /\ page' = r.page
                /\ draws' = draws \o r.draws
                /\ custom_dict' = loaded
                /\ pc' = "practice"
           ELSE /\ pc' = "raised"
                /\ UNCHANGED <<y, page, draws, custom_dict>>
    /\ UNCHANGED <<cfg, iterated, passage, layout, startPages, written, n_chars>>
    /\ UNCHANGED <<custom_file, base, query, answer>>

\* mutant: after the practice row render_passage returns, the ruled-line
\* row left out
RenderPracticeRowThenReturn ==
    /\ pc = "practice"
    /\ LET r == render_practice_row(cfg, Len(passage.original), layout.cell,
                                    layout.cpl, y, page)
       IN  /\ y' = RAdd(r.y, RInt(cfg.row_gap))
           /\ page' = r.page
           /\ draws' = draws \o r.draws
           /\ pc' = "return"
    /\ UNCHANGED <<cfg, iterated, passage, layout, startPages, written, n_chars>>
    /\ UNCHANGED dictVars

\* Row 3
RenderPracticeRow ==
    /\ pc = "practice"
    /\ LET r == render_practice_row(cfg, Len(passage.original), layout.cell,
                                    layout.cpl, y, page)
       IN  IF r.ok
           THEN /\ y' = RAdd(r.y, RInt(cfg.row_gap))
                /\ page' = r.page
                /\ draws' = draws \o r.draws
                /\ pc' = "interp"
           ELSE /\ pc' = "raised"
                /\ UNCHANGED <<y, page, draws>>
    /\ UNCHANGED <<cfg, iterated, passage, layout, startPages, written, n_chars>>
    /\ UNCHANGED dictVars

\* Row 4, and y += passage_gap
RenderInterpPractice ==
    /\ pc = "interp"
    /\ LET r == render_interp_practice(cfg, y, page)
       IN  /\ y' = RAdd(r.y, RInt(cfg.passage_gap))
           /\ page' = r.page
           /\ draws' = draws \o r.draws
    /\ pc' = "return"
    /\ UNCHANGED <<cfg, iterated, passage, layout, startPages, written, n_chars>>
    /\ UNCHANGED dictVars

\* render_passage returns to the loop of generate: its locals are gone
\* (self.cursor_y = y is written and never read again), and the record of
\* the passage's events is closed
ReturnToLoop ==
    /\ pc = "return"
    /\ pc' = "loop"
    /\ y' = RInt(0)
    /\ draws' = <<>>
    /\ passage' = NoPassage
    /\ layout' = NoLayout
    /\ UNCHANGED <<cfg, iterated, page, startPages, written, n_chars>>
    /\ UNCHANGED dictVars

\* mutant: generate catches the failure of a passage and writes what it has
OutputAfterFailure ==
    /\ pc \in {"loop", "raised"}
    /\ written' = written + 1
    /\ pc' = "done"
    /\ UNCHANGED <<cfg, iterated, passage, layout, page, y, draws, startPages, n_chars>>
    /\ UNCHANGED dictVars

\* generate, once the list is exhausted: self.pdf.output(output_path)
Output ==
    /\ pc = "loop"
    /\ written' = written + 1
    /\ pc' = "done"
    /\ UNCHANGED <<cfg, iterated, passage, layout, page, y, draws, startPages, n_chars>>
    /\ UNCHANGED dictVars

Next ==
    \/ Generate
    \/ RenderPassage
    \/ RenderOriginalRow
    \/ RenderGhostRow
    \/ RenderPracticeRow
    \/ RenderInterpPractice
    \/ ReturnToLoop
    \/ Output

Spec == Init /\ [][Next]_vars


-----------------------------------------------------------------------------
(* Document specification over configurations the caller passes to         *)
(* AnalectsTracingPDF(config): __init__ stores the Config as it is         *)

\* Config objects with a field off its default: usable width -10, usable
\* height 0, min_cell_size above max_cell_size, and a usable width of 15
\* below min_cell_size (int(w // cell) = 0 once a passage wraps)
UnusableConfigs ==
    { [DefaultConfig EXCEPT !.page_width = 20],
      [DefaultConfig EXCEPT !.page_height = 35],
      [DefaultConfig EXCEPT !.min_cell_size = 40],
      [DefaultConfig EXCEPT !.page_width = 45] }

InitConfig ==
    /\ cfg \in UnusableConfigs
    /\ pc = "constructed"
    /\ iterated = 0
    /\ passage = NoPassage
    /\ layout = NoLayout
    /\ page = 0
    /\ y = RInt(0)
    /\ draws = <<>>
    /\ startPages = <<>>
    /\ written = 0
    /\ n_chars = 0
    /\ custom_file = [state |-> "absent", table |-> {}]
    /\ custom_dict = NotLoadedDict
    /\ base = FixedBase
    /\ query = NoQuery
    /\ answer = <<>>

SpecConfig == InitConfig /\ [][Next]_vars

(* ------------------------------ Claims ------------------------------ *)

(* C1: for every character count n in 1..6 and any usable width,           *)
(* calculate_layout returns charsPerLine = n and                           *)
(* cellSize = max(min(usableWidth / n, maxCell), minCell); for n = 3,      *)
(* usableWidth = 180, maxCell = 30 it returns cellSize 30, charsPerLine 3. *)
C1_ShortPassageLayout ==
    (pc \in {"layout_returned", "layout_raised"} /\ n_chars \in 1..6) =>
        LET w  == usable_width(cfg)
            lo == cfg.min_cell_size
            hi == cfg.max_cell_size
            \* max(min(w / n, hi), lo), case by case
            expected ==
                CASE w >  hi * n_chars /\ hi >= lo -> <<hi, 1>>
                  [] w >  hi * n_chars /\ hi <  lo -> <<lo, 1>>
                  [] w <= hi * n_chars /\ w >= lo * n_chars -> Rat(w, n_chars)
                  [] OTHER -> <<lo, 1>>
        IN  /\ pc = "layout_returned"
            /\ layout.cpl = n_chars
            /\ layout.cell = expected
            /\ (w = 180 /\ hi = 30 /\ lo <= 30 /\ n_chars = 3)
                   => layout = [ok |-> TRUE, cell |-> <<30, 1>>, cpl |-> 3]

C1_Witness ==
    /\ pc = "layout_returned"
    /\ cfg = DefaultConfig
    /\ n_chars = 3
    /\ layout = [ok |-> TRUE, cell |-> <<30, 1>>, cpl |-> 3]

(* C2: for every character count n > 6, calculate_layout returns           *)
(* (usableWidth / n, n) when usableWidth / n >= minCell, the boundary      *)
(* included (n = 9, usableWidth = 180, minCell = 20 gives 20 and 9), and   *)
(* otherwise (minCell, floor(usableWidth / minCell)) (n = 12 gives 20 and  *)
(* 9, two wrapped lines of 9 and 3 characters).                            *)
C2_LongPassageLayout ==
    (pc \in {"layout_returned", "layout_raised"} /\ n_chars > 6) =>
        LET w  == usable_width(cfg)
            lo == cfg.min_cell_size
        IN  /\ pc = "layout_returned"
            /\ (w >= lo * n_chars) =>
                   /\ layout.cpl = n_chars
                   /\ layout.cell[1] * n_chars = w * layout.cell[2]
            /\ (w < lo * n_chars) =>
                   /\ layout.cell = <<lo, 1>>
                   \* cpl is the floor of w / lo
                   /\ layout.cpl * lo <= w
                   /\ w < (layout.cpl + 1) * lo
            /\ (w = 180 /\ lo = 20 /\ n_chars \in {9, 12})
                   => layout = [ok |-> TRUE, cell |-> <<20, 1>>, cpl |-> 9]

\* the wrapping case of the example: 12 characters in lines of 9 and 3
C2_Witness ==
    /\ pc = "layout_returned"
    /\ cfg = DefaultConfig
    /\ n_chars = 12
    /\ layout = [ok |-> TRUE, cell |-> <<20, 1>>, cpl |-> 9]
    /\ CeilDiv(n_chars, layout.cpl) = 2
    /\ n_chars - layout.cpl = 3

-----------------------------------------------------------------------------
(* Claims about get_hanja_meaning (specification SpecGloss) *)

\* a call with a one-character argument has returned
GlossReturned == pc = "get_returned" /\ Len(query.char) = 1

\* the override table has no entry for the argument, raw or normalized
NoOverride ==
    /\ ~ Has(custom_dict.table, query.char)
    /\ ~ Has(custom_dict.table, normalize_NFKC(query.char))

\* what the base dictionary answers for the argument: the entry of the
\* normalized form, else the entry of the raw form, else ""
EntryOfQuery ==
    IF Has(base, normalize_NFKC(query.char))
    THEN Get(base, normalize_NFKC(query.char))
    ELSE IF Has(base, query.char) THEN Get(base, query.char)
    ELSE <<>>

JeulgeoulRak == <<"jeul", "geo", "ul", " ", "rak">>
NoraeAk == <<"no", "rae", " ", "ak">>

(* C5 (as claimed): for a character whose dictionary result is             *)
(* "jeulgeoul rak, norae ak, johahal yo" and that has no override entry,   *)
(* preferredSound "ak" returns "norae ak", the candidate whose sound       *)
(* literally equals the hint, and no preferredSound returns                *)
(* "jeulgeoul rak".                                                        *)
C5_LiteralHintSelects ==
    (GlossReturned /\ NoOverride /\ EntryOfQuery = RakEntry) =>
        /\ query.preferred_sound = Some(<<"ak">>) => answer = NoraeAk
        /\ query.preferred_sound = None => answer = JeulgeoulRak

(* C6 (as claimed): for the same character, preferredSound "nak", a sound  *)
(* no candidate carries, returns "norae ak" through the family             *)
(* {rak, nak, ak, yo}.                                                     *)
C6_NakSelectsNoraeAk ==
    (GlossReturned /\ NoOverride /\ EntryOfQuery = RakEntry
       /\ query.preferred_sound = Some(<<"nak">>))
        => answer = NoraeAk

(* C6 (amended): for the same character, preferredSound "nak" returns      *)
(* "jeulgeoul rak": the first candidate in dictionary order whose sound    *)
(* lies with "nak" in the family {rak, nak, ak, yo}; the match is by       *)
(* family, not by literal equality.                                        *)
C6_NakSelectsFirstOfFamily ==
    (GlossReturned /\ NoOverride /\ EntryOfQuery = RakEntry
       /\ query.preferred_sound = Some(<<"nak">>))
        => /\ answer = JeulgeoulRak
           /\ answer = strip(split_on(RakEntry, ",")[1])

C6_Witness ==
    /\ GlossReturned /\ NoOverride
    /\ query.char = <<"U6A02">>
    /\ EntryOfQuery = RakEntry
    /\ query.preferred_sound = Some(<<"nak">>)
    /\ answer = JeulgeoulRak

\* the families as the claim lists them
ClaimedFamilies ==
    { {"bul", "bu"}, {"rak", "nak", "ak", "yo"}, {"ryuk", "yuk"}, {"rye", "ye"} }

\* the candidates of the entry, and whether candidate i qualifies for p
QueryCandidates ==
    LET parted == split_on(EntryOfQuery, ",")
    IN  [i \in 1..Len(parted) |-> strip(parted[i])]

Qualifies(i, p) ==
    LET tokens == split_ws(QueryCandidates[i])
    IN  /\ tokens # <<>>
        /\ LET last == tokens[Len(tokens)]
           IN  \/ last = p
               \/ /\ Len(last) = 1 /\ Len(p) = 1
                  /\ \E f \in ClaimedFamilies : last[1] \in f /\ p[1] \in f

(* C7: for a single character with no override entry and a non-empty       *)
(* dictionary result, get_hanja_meaning with a preferredSound returns the  *)
(* first candidate, in dictionary order, whose last token equals           *)
(* preferredSound or lies with it in one of the four families; if no       *)
(* candidate qualifies, or no preferredSound is given, it returns the      *)
(* first candidate.                                                        *)
C7_FirstQualifyingCandidate ==
    (GlossReturned /\ NoOverride /\ EntryOfQuery # <<>>) =>
        LET p == query.preferred_sound
            hits == IF p.some
                    THEN {i \in 1..Len(QueryCandidates) : Qualifies(i, p.val)}
                    ELSE {}
        IN  IF hits # {}
            THEN answer = QueryCandidates[CHOOSE i \in hits : \A j \in hits : i <= j]
            ELSE answer = QueryCandidates[1]

\* a family match on a candidate that is not the first
C7_Witness ==
    /\ GlossReturned /\ NoOverride
    /\ Len(QueryCandidates) >= 2
    /\ query.preferred_sound = Some(<<"rak">>)
    /\ answer = QueryCandidates[2]
    /\ answer = <<"tteut", " ", "ak">>
    /\ QueryCandidates[1] = <<"tteut", " ", "hak">>

(* C8: if the override table has an entry for the queried single           *)
(* character, or failing that for its NFKC-normalized form,                *)
(* get_hanja_meaning returns that entry verbatim for every preferredSound  *)
(* (including none) and whatever the base dictionary holds; the            *)
(* raw-character entry takes precedence over the normalized-form entry.    *)
C8_OverrideWins ==
    GlossReturned =>
        LET t == custom_dict.table
            raw == query.char
            norm == normalize_NFKC(query.char)
        IN  /\ Has(t, raw) => answer = Get(t, raw)
            /\ (~ Has(t, raw) /\ Has(t, norm)) => answer = Get(t, norm)

\* the override of the normalized form answers for the compatibility form,
\* against a base dictionary that has an entry and a hint that matches it
C8_Witness ==
    /\ GlossReturned
    /\ query.char = <<"UF914">>
    /\ ~ Has(custom_dict.table, <<"UF914">>)
    /\ Has(custom_dict.table, <<"U6A02">>)
    /\ EntryOfQuery = RakEntry
    /\ query.preferred_sound = Some(<<"ak">>)
    /\ answer = Get(custom_dict.table, <<"U6A02">>)
    /\ answer = <<"pung", "nyu", " ", "ak">>

-----------------------------------------------------------------------------
(* Claims about the document build (specification Spec) *)

\* the call of the renderer `name` among the events of the current passage
CallIndex(name) ==
    CHOOSE i \in 1..Len(draws) : draws[i].op = "call" /\ draws[i].what = name

\* the events the renderer issued: those after its call and before the next
EventsOf(name) ==
    LET i == CallIndex(name)
        later == {j \in (i + 1)..Len(draws) : draws[j].op = "call"}
        stop == IF later = {} THEN Len(draws) + 1
                ELSE CHOOSE j \in later : \A k \in later : j <= k
    IN  (i + 1)..(stop - 1)

\* rows needed for the current passage: the least r with r * cpl >= n
RowsNeeded ==
    CHOOSE r \in 0..Len(passage.original) :
        /\ r * layout.cpl >= Len(passage.original)
        /\ \A q \in 0..(r - 1) : q * layout.cpl < Len(passage.original)

\* y_in + rows * height > page_height - margin_bottom, for a rational
\* y_in and a rational height
Overflows(y_in, height) ==
    LET total == RAdd(y_in, RMulInt(height, RowsNeeded))
    IN  total[1] > (cfg.page_height - cfg.margin_bottom) * total[2]

\* a row renderer, called at y_in on page pg_in, broke the page exactly
\* once before its first line, restarted at the top margin, and drew every
\* line of kind `line` on the new page
BrokeOnce(name, line) ==
    LET i == CallIndex(name)
        evs == EventsOf(name)
    IN  /\ Cardinality({k \in evs : draws[k].op = "add_page"}) = 1
        /\ draws[i + 1].op = "add_page"
        /\ draws[i + 1].page = draws[i].page + 1
        /\ \A k \in evs : draws[k].op = line => draws[k].page = draws[i].page + 1
        /\ \E k \in evs : draws[k].op = line /\ draws[k].y = <<cfg.margin_top, 1>>
        /\ \A k \in evs : draws[k].op = line =>
               draws[k].y[1] >= cfg.margin_top * draws[k].y[2]

\* it added no page and drew from y_in on, on the page it was called on
BrokeNot(name, line) ==
    LET i == CallIndex(name)
        evs == EventsOf(name)
    IN  /\ \A k \in evs : draws[k].op # "add_page"
        /\ \A k \in evs : draws[k].op = line => draws[k].page = draws[i].page
        /\ \E k \in evs : draws[k].op = line /\ draws[k].y = draws[i].y

GhostRowDone == pc \in {"practice", "interp", "return"}
PracticeRowDone == pc \in {"interp", "return"}

(* C3: every passage begins on a page that render_passage adds for it      *)
(* alone, with its label drawn at the top margin: the starting pages of    *)
(* distinct passages are distinct and in input order, the first passage    *)
(* also gets a newly added page, and nothing is drawn before a page        *)
(* exists.                                                                 *)
C3_OwnStartingPage ==
    /\ \A i, j \in 1..Len(startPages) : i < j => startPages[i] < startPages[j]
    /\ \A i \in 1..Len(startPages) : startPages[i] >= 1
    /\ \A k \in 1..Len(draws) :
           draws[k].op \notin {"call", "add_page"} => draws[k].page >= 1
    /\ (pc \in {"original", "ghost", "practice", "interp", "return"}) =>
           /\ draws[1].op = "call" /\ draws[1].what = "render_passage"
           /\ draws[2] = AddPage(draws[1].page + 1)
           /\ draws[3].op = "label"
           /\ draws[3].page = draws[1].page + 1
           /\ draws[3].y = <<cfg.margin_top, 1>>
           /\ startPages[Len(startPages)] = draws[3].page
           /\ Len(startPages) = iterated

\* the second passage starts on its own page after a first passage that
\* ran over more than one page
C3_Witness ==
    /\ pc = "original"
    /\ startPages = <<1, 3>>
    /\ draws[3].op = "label" /\ draws[3].page = 3

(* C4: whenever render_ghost_row is called with an offset y such that      *)
(* y + rows-needed x (cellSize + annotation height) exceeds                *)
(* page_height - margin_bottom, exactly one new page is added before any   *)
(* cell is drawn and drawing restarts at the top margin, however far past  *)
(* the threshold y is; when the block fits, no page is added.              *)
C4_GhostRowBreaksOnce ==
    GhostRowDone =>
        LET y_in == draws[CallIndex("render_ghost_row")].y
            over == Overflows(y_in, RAdd(layout.cell, RInt(cfg.meaning_height)))
        IN  IF over
            THEN BrokeOnce("render_ghost_row", "ghost_line")
            ELSE BrokeNot("render_ghost_row", "ghost_line")

\* the ghost row was called with an offset below the end of the page itself
C4_Witness ==
    /\ GhostRowDone
    /\ LET y_in == draws[CallIndex("render_ghost_row")].y
       IN  y_in[1] > (cfg.page_height + 20) * y_in[2]
    /\ BrokeOnce("render_ghost_row", "ghost_line")

\* the Hangul syllables of a reading: what is neither blank nor punctuation
SyllablesOf(reading) ==
    SelectSeq(reading, LAMBDA ch : ch \notin {" ", ":", ",", "."})

\* the get_hanja_meaning calls of the ghost row, in character order
GhostCalls ==
    LET evs == EventsOf("render_ghost_row")
        lines == {k \in evs : draws[k].op = "ghost_line"}
    IN  [i \in 1..Len(passage.original) |->
            LET first == CHOOSE k \in lines : \A m \in lines : k <= m
                k == first + ((i - 1) \div layout.cpl)
            IN  draws[k].calls[((i - 1) % layout.cpl) + 1]]

(* C9 (as claimed): when the reading of the passage holds exactly as many  *)
(* phonetic syllables as the passage has characters, the gloss of the      *)
(* i-th character is resolved with the i-th syllable as preferred sound;   *)
(* when the counts differ, every character is resolved with no preferred   *)
(* sound.                                                                  *)
C9_SoundHintsAligned ==
    GhostRowDone =>
        LET syl == SyllablesOf(passage.reading)
            n == Len(passage.original)
        IN  \A i \in 1..n :
                /\ GhostCalls[i].char = <<passage.original[i]>>
                /\ GhostCalls[i].preferred_sound =
                       IF Len(syl) = n THEN Some(<<syl[i]>>) ELSE None

(* C10 (as claimed): render_practice_row adds a new page, and restarts at  *)
(* the top margin, exactly when render_ghost_row would for the same        *)
(* inputs: when offset + rows-needed x (cellSize + annotation-box height)  *)
(* exceeds page_height - margin_bottom.                                    *)
C10_PracticeBreaksLikeGhost ==
    PracticeRowDone =>
        LET i == CallIndex("render_practice_row")
            ghost == render_ghost_row(cfg, passage.original, layout.cell,
                                      layout.cpl, draws[i].y, draws[i].page,
                                      custom_dict.table, base)
            over == Overflows(draws[i].y,
                              RAdd(layout.cell, RInt(cfg.meaning_height)))
        IN  /\ over <=> \E k \in EventsOf("render_practice_row") :
                            draws[k].op = "add_page"
            /\ (ghost.page # draws[i].page)
                   <=> \E k \in EventsOf("render_practice_row") :
                            draws[k].op = "add_page"

(* C10 (amended): render_practice_row applies a pre-check of the same form *)
(* as the ghost row's, sized to the block it draws, which has no           *)
(* annotation boxes: it adds exactly one new page before any cell, and     *)
(* restarts at the top margin, exactly when                                *)
(* offset + rows-needed x cellSize exceeds page_height - margin_bottom,    *)
(* and otherwise adds none and draws from the offset on.                   *)
C10_PracticeBreaksOnOwnBlock ==
    PracticeRowDone =>
        LET y_in == draws[CallIndex("render_practice_row")].y
        IN  IF Overflows(y_in, layout.cell)
            THEN BrokeOnce("render_practice_row", "practice_line")
            ELSE BrokeNot("render_practice_row", "practice_line")

\* the offsets at which the two checks part: the cells fit, the cells with
\* annotation boxes would not, and the practice row stays on the page
C10_Witness ==
    /\ PracticeRowDone
    /\ LET y_in == draws[CallIndex("render_practice_row")].y
       IN  /\ ~ Overflows(y_in, layout.cell)
           /\ Overflows(y_in, RAdd(layout.cell, RInt(cfg.meaning_height)))
    /\ BrokeNot("render_practice_row", "practice_line")

InterpRowDone == pc = "return"

(* C11 (as claimed): the page check of render_interp_practice is sized to  *)
(* the whole block it draws, the label and the ruled lines: it adds a page *)
(* exactly when the starting offset plus the distance from that offset to  *)
(* its last ruled line exceeds page_height - margin_bottom, so that        *)
(* without a page break no ruled line, and so the returned offset, lies    *)
(* below page_height - margin_bottom.                                      *)
C11_InterpBreaksOnWholeBlock ==
    InterpRowDone =>
        LET i == CallIndex("render_interp_practice")
            evs == EventsOf("render_interp_practice")
            block == InterpLabelHeight
                       + cfg.interp_practice_lines * cfg.interp_practice_height
            over == RLt(RInt(page_bottom(cfg)), RAdd(draws[i].y, RInt(block)))
            broke == \E k \in evs : draws[k].op = "add_page"
        IN  /\ over <=> broke
            /\ ~ broke =>
                   \A k \in evs :
                       draws[k].op = "ruled_line" =>
                           RLe(draws[k].y, RInt(page_bottom(cfg)))

\* the steps of render_passage in order, and the control point after each
PassageSteps ==
    <<"render_passage", "render_original_row", "render_ghost_row",
      "render_practice_row", "render_interp_practice">>

StepsDoneAt(p) ==
    CASE p = "original" -> 1
      [] p = "ghost"    -> 2
      [] p = "practice" -> 3
      [] p = "interp"   -> 4
      [] p = "return"   -> 5

InPassage == pc \in {"original", "ghost", "practice", "interp", "return"}

\* the renderers called for the current passage so far, in call order
CallsSoFar ==
    LET calls == SelectSeq(draws, LAMBDA ev : ev.op = "call")
    IN  [i \in 1..Len(calls) |-> calls[i].what]

\* the step that issues a drawing event of the given kind
StepOfKind(kind) ==
    CASE kind \in {"add_page", "label"} -> 1
      [] kind \in {"original_line", "reading", "interpretation"} -> 2
      [] kind = "ghost_line" -> 3
      [] kind = "practice_line" -> 4
      [] kind \in {"interp_label", "ruled_line"} -> 5

\* the step during which event k was issued: the calls up to it
StepOfEvent(k) ==
    Cardinality({j \in 1..k : draws[j].op = "call"})

\* what a passage under way has done is a prefix of the fixed order, each
\* step once; the page and the label come first; every drawing falls in
\* the step that owns it (a row may also add a page)
StepsInOrder ==
    InPassage =>
        /\ CallsSoFar = SubSeq(PassageSteps, 1, StepsDoneAt(pc))
        /\ draws[2].op = "add_page"
        /\ draws[3].op = "label"
        /\ Cardinality({k \in 1..Len(draws) : draws[k].op = "label"}) = 1
        /\ \A k \in 1..Len(draws) :
               draws[k].op \notin {"call", "add_page"} =>
                   StepOfEvent(k) = StepOfKind(draws[k].op)
        /\ \A s \in 2..StepsDoneAt(pc) :
               \E k \in EventsOf(PassageSteps[s]) : draws[k].op # "add_page"

\* one step of the build: the control point moves along the fixed order,
\* and from the label to the ruled lines the passage rendered is the same
StepAdvances ==
    /\ pc = "constructed" => pc' = "loop"
    /\ pc = "loop" => pc' \in {"original", "raised", "done"}
    /\ pc = "original" => pc' \in {"ghost", "raised"}
    /\ pc = "ghost" => pc' \in {"practice", "raised"}
    /\ pc = "practice" => pc' \in {"interp", "raised"}
    /\ pc = "interp" => pc' = "return"
    /\ pc = "return" => pc' = "loop"
    /\ (pc \in {"original", "ghost", "practice", "interp"}) =>
           /\ passage' = passage
           /\ layout' = layout
           /\ iterated' = iterated
           /\ startPages' = startPages
           /\ SubSeq(draws', 1, Len(draws)) = draws
    /\ pc' = "original" => pc = "loop" /\ iterated' = iterated + 1

(* C12: for every passage, render_passage performs its steps in the fixed  *)
(* order new page, label, original row, ghost row, practice row,           *)
(* ruled-line row, done; each step runs exactly once, none is skipped or   *)
(* repeated, and no step of one passage is interleaved with a step of      *)
(* another.                                                                *)
C12_StepsInFixedOrder == [] StepsInOrder /\ [][StepAdvances]_vars

\* the second passage of a list has gone through all its steps
C12_Witness ==
    /\ pc = "return"
    /\ iterated = 2
    /\ CallsSoFar = PassageSteps
    /\ \E k \in 1..Len(draws) : draws[k].op = "ruled_line"

-----------------------------------------------------------------------------
(* Claims about the build under other configurations (SpecConfig) *)

\* the configurations the claim has rejected
Unusable(c) ==
    \/ usable_width(c) <= 0
    \/ usable_height(c) <= 0
    \/ c.min_cell_size > c.max_cell_size
    \/ (c.min_cell_size > 0 /\ usable_width(c) \div c.min_cell_size = 0)

(* C13 (as claimed): a configuration with usable width or height <= 0,     *)
(* with minCell > maxCell, or for which the characters-per-line            *)
(* computation yields zero is rejected before any page is added or any     *)
(* drawing call is made: no passage is rendered under it, nothing is       *)
(* drawn and no document is written.                                       *)
C13_UnusableConfigRejected ==
    Unusable(cfg) =>
        /\ page = 0
        /\ \A k \in 1..Len(draws) : draws[k].op = "call"
        /\ startPages = <<>>
        /\ written = 0
        /\ pc \notin {"original", "ghost", "practice", "interp", "return", "done"}

\* the document is written at most once, exactly on reaching the end of
\* generate, and then every passage taken from the list has been rendered
WrittenOnlyAtEnd ==
    /\ written \in {0, 1}
    /\ written = 1 <=> pc = "done"
    /\ pc = "raised" => written = 0
    /\ pc = "done" => Len(startPages) = iterated

\* a failure is final: after it no passage is taken from the list, nothing
\* is drawn and nothing is written; the document is written by the step
\* that leaves the loop and by no other
FailureIsFinal ==
    /\ pc = "raised" =>
           /\ pc' = "raised"
           /\ iterated' = iterated
           /\ draws' = draws
           /\ page' = page
           /\ startPages' = startPages
           /\ written' = written
    /\ written' # written =>
           /\ pc = "loop"
           /\ pc' = "done"
           /\ written' = written + 1

(* C14: if rendering of any passage fails, generate does not catch the     *)
(* failure: the passages after the failing one are never rendered, the     *)
(* document is never written to the output target, and the failure reaches *)
(* generate's caller; the document is written exactly once, and only after *)
(* every passage has rendered without failure.                             *)
C14_FailureAbortsDocument == [] WrittenOnlyAtEnd /\ [][FailureIsFinal]_vars

\* the second passage of a list failed in the middle of its rendering, its
\* page added and its label drawn, after the first had been rendered
C14_Witness ==
    /\ pc = "raised"
    /\ iterated = 2
    /\ Len(startPages) = 2
    /\ layout.ok
    /\ \E k \in 1..Len(draws) : draws[k].op = "label"
    /\ written = 0

-----------------------------------------------------------------------------
(* Claims about the build under Config(), continued (specification Spec) *)

\* the passage render_passage was last called with has no source character
EmptyPassageTaken == passage # NoPassage /\ passage.original = <<>>

(* C15: a passage with zero source characters is never rendered:           *)
(* render_passage fails for it, in calculate_layout, before adding a page  *)
(* or issuing any drawing call for that passage, at whatever position it   *)
(* occurs in the passage list.                                             *)
C15_EmptyPassageFails ==
    EmptyPassageTaken =>
        /\ pc = "raised"
        /\ layout = Raised("ZeroDivisionError")
        /\ draws = <<Call("render_passage", page, draws[1].y)>>
        /\ Len(startPages) = iterated - 1
        /\ \A i \in 1..Len(startPages) : startPages[i] <= page
        /\ written = 0

\* the empty passage came second, after a passage that was rendered
C15_Witness ==
    /\ EmptyPassageTaken
    /\ pc = "raised"
    /\ iterated = 2
    /\ startPages = <<1>>
    /\ page >= 1

-----------------------------------------------------------------------------
(* Claims about one gloss call, continued (specification SpecGloss) *)

\* the base dictionary misses on the normalized and on the raw argument
BaseMisses ==
    /\ lookup(base, normalize_NFKC(query.char)) = <<>>
    /\ lookup(base, query.char) = <<>>

(* C16: get_hanja_meaning returns the empty string, and never fails, when  *)
(* its input is not exactly one character (empty or longer), and when a    *)
(* single character has no override entry and the base dictionary misses   *)
(* on both its normalized and its raw form.                                *)
C16_EmptyGlossNoFailure ==
    /\ pc \in {"call_get", "get_returned"}
    /\ pc = "get_returned" =>
           /\ Len(query.char) # 1 => answer = <<>>
           /\ (Len(query.char) = 1 /\ NoOverride /\ BaseMisses) => answer = <<>>

\* a character of the override table's file and of other dictionaries,
\* asked with a preferred sound, that neither the loaded table nor the base
\* dictionary of the call knows
C16_Witness ==
    /\ pc = "get_returned"
    /\ query.char = <<"U6A02">>
    /\ query.preferred_sound = Some(<<"ak">>)
    /\ custom_dict.loaded
    /\ NoOverride
    /\ BaseMisses
    /\ answer = <<>>

-----------------------------------------------------------------------------
(* Claims about sequences of dictionary calls (specification SpecDict) *)

\* the override table the next call sees: the cached one, or what the
\* first load will take from the file
OverrideTable == load_custom_dict(custom_dict, custom_file).table

\* after a save that went through, the table holds the saved meaning
SavedIsHeld ==
    (query.fn = "save_custom_meaning" /\ query.char # <<>> /\ query.meaning # <<>>)
        => /\ Has(OverrideTable, query.char)
           /\ Get(OverrideTable, query.char) = query.meaning
           /\ custom_dict.loaded

\* one call: no key is lost; a save with an empty argument changes
\* nothing; a save sets the entry of its character and no other; a get
\* changes nothing and answers a single character that has an entry with
\* that entry
TableOnlyAddedTo ==
    /\ Keys(OverrideTable) \subseteq Keys(OverrideTable')
    /\ query'.fn = "save_custom_meaning" =>
           IF query'.char = <<>> \/ query'.meaning = <<>>
           THEN OverrideTable' = OverrideTable
           ELSE /\ Get(OverrideTable', query'.char) = query'.meaning
                /\ \A k \in Keys(OverrideTable) \ {query'.char} :
                       Get(OverrideTable', k) = Get(OverrideTable, k)
                /\ Keys(OverrideTable') = Keys(OverrideTable) \cup {query'.char}
    /\ query'.fn = "get_hanja_meaning" =>
           /\ OverrideTable' = OverrideTable
           /\ (Len(query'.char) = 1 /\ Has(OverrideTable, query'.char)) =>
                  answer' = Get(OverrideTable, query'.char)

(* C17: across any sequence of save_custom_meaning and get_hanja_meaning   *)
(* calls, the override table is only added to: a character that has an     *)
(* entry never loses it, a save with an empty character or empty meaning   *)
(* leaves the table unchanged, a save changes no entry other than the      *)
(* saved character's, and a later get_hanja_meaning of a saved single      *)
(* character returns the most recently saved meaning.                      *)
C17_OverridesOnlyAdded == [] SavedIsHeld /\ [][TableOnlyAddedTo]_vars

\* a get of a character saved twice over an entry of the file returns the
\* meaning saved last, while the file (its write failed) holds the first
C17_Witness ==
    /\ query.fn = "get_hanja_meaning"
    /\ query.char = <<"U6A02">>
    /\ answer = <<"jeul", "gil", " ", "rak">>
    /\ custom_file = [state |-> "ok",
                      table |-> {<<<<"U6A02">>, <<"pung", "nyu", " ", "ak">>>>}]
    /\ Has(OverrideTable, <<"UF914">>)

-----------------------------------------------------------------------------
(* Claims about calculate_layout, continued (specification SpecLayout) *)

\* the call the claim is about: n >= 1, minCell <= maxCell and
\* usableWidth >= minCell
LayoutCallInScope ==
    /\ pc \in {"layout_returned", "layout_raised"}
    /\ n_chars >= 1
    /\ cfg.min_cell_size <= cfg.max_cell_size
    /\ usable_width(cfg) >= cfg.min_cell_size

\* charsPerLine x cellSize <= usableWidth
LineFits ==
    layout.cpl * layout.cell[1] <= usable_width(cfg) * layout.cell[2]

\* a short passage whose cells at minCell are wider than the usable width
ShortAndNarrow ==
    n_chars <= 6 /\ usable_width(cfg) < n_chars * cfg.min_cell_size

(* C18 (as claimed): for every character count n >= 1 and every            *)
(* configuration with minCell <= maxCell and usableWidth >= minCell, the   *)
(* layout returned by calculate_layout fits horizontally:                  *)
(* charsPerLine >= 1, cellSize >= minCell, and                             *)
(* charsPerLine x cellSize <= usableWidth.                                 *)
C18_LayoutFits ==
    LayoutCallInScope =>
        /\ pc = "layout_returned"
        /\ layout.cpl >= 1
        /\ RLe(RInt(cfg.min_cell_size), layout.cell)
        /\ LineFits

(* C18 (amended): under the same conditions charsPerLine >= 1 and          *)
(* cellSize >= minCell always, and charsPerLine x cellSize <= usableWidth  *)
(* for every n >= 7, and for n <= 6 exactly when                           *)
(* usableWidth >= n x minCell; for n <= 6 and usableWidth < n x minCell    *)
(* the layout is (minCell, n), a line n x minCell wide, longer than the    *)
(* usable width.                                                           *)
C18_LayoutFitsUnlessShortAndNarrow ==
    LayoutCallInScope =>
        /\ pc = "layout_returned"
        /\ layout.cpl >= 1
        /\ RLe(RInt(cfg.min_cell_size), layout.cell)
        /\ LineFits <=> ~ ShortAndNarrow
        /\ ShortAndNarrow =>
               layout = LayoutOf(RInt(cfg.min_cell_size), n_chars)

\* six characters, minCell 20, on a usable width of 90: six cells of 20
C18_Witness ==
    /\ LayoutCallInScope
    /\ usable_width(cfg) = 90
    /\ cfg.min_cell_size = 20
    /\ n_chars = 6
    /\ layout = LayoutOf(RInt(20), 6)
    /\ ~ LineFits

-----------------------------------------------------------------------------
(* Claims about the build under Config(), continued (specification Spec) *)

\* every line of the given kind the renderer drew ends at or above
\* page_height - margin_bottom, which is then also true of the offset it
\* returned, the end of its last line
LinesAboveBottom(name, line) ==
    \A k \in EventsOf(name) :
        draws[k].op = line =>
            RLe(RAdd(draws[k].y, draws[k].h), RInt(page_bottom(cfg)))

(* C19 (as claimed): for a passage of any length rendered with the default *)
(* Config, after render_ghost_row and render_practice_row have applied     *)
(* their overflow pre-checks, every grid cell (and annotation strip) they  *)
(* draw lies at or above page_height - margin_bottom, and the offset each  *)
(* returns does not exceed page_height - margin_bottom.                    *)
C19_RowsStayAboveBottom ==
    /\ GhostRowDone => LinesAboveBottom("render_ghost_row", "ghost_line")
    /\ PracticeRowDone => LinesAboveBottom("render_practice_row", "practice_line")

=============================================================================
